---- MODULE Spec2Model ----
(***************************************************************************)
(* infra-hex-rs as state machines.                                         *)
(*                                                                         *)
(* Spec, SpecFair: one call of fetch_all_pages(total_count, config,        *)
(* fetch_page) (src/src/client/pagination.rs).  The arguments are chosen   *)
(* in Init; the page fetcher is arbitrary, so each page future completes   *)
(* at any time, in any order, with Ok(records) or Err(e).                  *)
(*                                                                         *)
(* SpecAgg: two calls of the aggregation pipeline on one record slice      *)
(* (src/src/core/arrow.rs, src/src/core/hex.rs).                           *)
(*                                                                         *)
(* SpecCadent: CadentClient::new and fetch_all_by_bbox                     *)
(* (src/src/client/cadent/client.rs) on top of fetch_all_pages.            *)
(*                                                                         *)
(* SpecGeo: the GeoJSON conversions (src/src/core/geometry.rs).            *)
(***************************************************************************)
EXTENDS Integers, Sequences, FiniteSets, TLC

(* ------------------------------ bounds -------------------------------- *)
MaxTotal == 5

MaxPageSize == 2

MaxBatchSize == 2

MaxCeiling == 3

MaxRecs == 2

(* --------------------------- value helpers ---------------------------- *)
\* Option<usize>: None is the empty tuple, Some(n) the one-element tuple.
None == <<>>

Some(n) == <<n>>

\* Result<Vec<T>, InfraHexError> of one page, plus the not-yet-ready state a
\* future has inside join_all.
Pending == [tag |-> "Pending", records |-> <<>>, err |-> -1]

Ok(recs) == [tag |-> "Ok", records |-> recs, err |-> -1]

Err(e) == [tag |-> "Err", records |-> <<>>, err |-> e]

\* The records a page fetcher returns for the page at offset o: n of them,
\* each tagged with the page it came from.
PageRecords(o, n) == [i \in 1..n |-> <<o, i>>]

Elems(s) == {s[i] : i \in 1..Len(s)}

Last(s) == IF s = <<>> THEN None ELSE Some(s[Len(s)])

(* ------------------------------ state --------------------------------- *)
VARIABLES
    total_count,    \* argument total_count
    config,         \* argument config: page_size, batch_size, max_offset
    pc,             \* position of the call
    offsets,        \* Vec<usize> of all page offsets
    rest,           \* offsets the chunks() iterator has not yet yielded
    chunk,          \* the current wave's offsets
    batch_results,  \* per offset of the wave: Pending or the page's result
    result,         \* InfraResult under construction: records, errors
    calls,          \* history: every fetch_page(offset, limit) invocation
    waves,          \* history: every chunk issued
    completion,     \* history: [offset, output] in the order fetches completed
    pauses          \* history: number of sleep(batch_delay) performed

fetchVars == <<total_count, config, pc, offsets, rest, chunk, batch_results,
               result, calls, waves, completion, pauses>>

\* State of a run of the aggregation pipeline (src/src/core/arrow.rs): the
\* record slice is fixed for the run, on which to_record_batch_impl or
\* to_hex_summary_impl is called, and then called once more.
VARIABLES
    records,        \* argument records: the slice of pipeline records
    filter,         \* argument filter: the BoundaryFilter of the call
    mode,           \* which function was called
    agg_pc,         \* position of the call
    valid_ids,      \* let valid_ids = filter.valid_cell_ids(zoom)?
    extracted,      \* par_iter().map(get_hex_cells): per record Pending or its result
    cells_per_pipe, \* let cells_per_pipe = extract_cells_per_pipeline(...)?
    aggregated,     \* let (sorted, cells_map) = aggregate_hex_counts(cells_per_pipe)
    batch,          \* the Result<RecordBatch, InfraHexError> the call returns
    previous        \* history: mode, filter and result of the call before

aggVars == <<records, filter, mode, agg_pc, valid_ids, extracted,
             cells_per_pipe, aggregated, batch, previous>>

\* State of a run of the Cadent client (src/src/client/cadent/client.rs):
\* CadentClient::new, then fetch_all_by_bbox on the client it returned,
\* which runs fetch_all_pages on the state above.
VARIABLES
    env_api_key,    \* the environment variable CADENT_API_KEY: None or Some(key)
    client,         \* the Result<CadentClient, InfraHexError> of CadentClient::new
    cad_pc,         \* position of the run
    server,         \* how the remote API answers during the run
    count_queries,  \* history: number of count queries (limit=1) sent
    outcome         \* the InfraResult fetch_all_by_bbox returned, if it has

cadentVars == <<env_api_key, client, cad_pc, server, count_queries, outcome>>

\* State of a run of the GeoJSON conversions (src/src/core/geometry.rs).
VARIABLES
    geo_input,      \* the value the conversion is applied to
    geo_output,     \* what the conversions returned
    geo_pc          \* position of the run

geoVars == <<geo_input, geo_output, geo_pc>>

vars == <<total_count, config, pc, offsets, rest, chunk, batch_results,
          result, calls, waves, completion, pauses,
          records, filter, mode, agg_pc, valid_ids, extracted,
          cells_per_pipe, aggregated, batch, previous,
          env_api_key, client, cad_pc, server, count_queries, outcome,
          geo_input, geo_output, geo_pc>>

(* --------------------------- pure functions --------------------------- *)
\* InfraResult::new
InfraResultNew == [records |-> <<>>, errors |-> <<>>]

\* Variant without the early return.
IsEmptyCountNever(tc) == FALSE

\* if total_count == 0 { return result; }
IsEmptyCount(tc) == tc = 0

\* Variant that ignores the configured ceiling.
FetchableNoCeiling(tc, mo) == tc

\* let fetchable = match config.max_offset { Some(max) => total_count.min(max), None => total_count }
Fetchable(tc, mo) ==
    IF mo = None THEN tc ELSE (IF tc <= mo[1] THEN tc ELSE mo[1])

\* Variant with an inclusive upper end, (lo..=hi).
RECURSIVE StepByInclusive(_, _, _)
StepByInclusive(lo, hi, step) ==
    IF lo > hi THEN <<>> ELSE <<lo>> \o StepByInclusive(lo + step, hi, step)

\* (lo..hi).step_by(step).collect(); step >= 1 (step_by(0) panics): the
\* k-th element the iterator yields is lo + (k - 1) * step, as long as it is
\* below hi.
StepBy(lo, hi, step) ==
    [k \in 1..(IF lo >= hi THEN 0 ELSE (hi - lo + step - 1) \div step) |->
        lo + (k - 1) * step]

\* Variant whose chunks are one offset too long.
FirstChunkTooLong(s, n) == SubSeq(s, 1, IF Len(s) <= n + 1 THEN Len(s) ELSE n + 1)

\* The first chunk that slice.chunks(n) yields for a non-empty slice.
FirstChunk(s, n) == SubSeq(s, 1, IF Len(s) <= n THEN Len(s) ELSE n)

\* What chunks(n) still has to yield after that first chunk.
AfterChunk(s, n) == SubSeq(s, (IF Len(s) <= n THEN Len(s) ELSE n) + 1, Len(s))

\* chunk.iter().map(|&offset| fetch_page(offset, config.page_size)).collect()
FetchCalls(c, limit) == [i \in 1..Len(c) |-> <<c[i], limit>>]

\* Variant that gives up at the first failed page of a wave, as collecting
\* into a single Result would.
RECURSIVE CollectUntilErr(_, _)
CollectUntilErr(res, page_results) ==
    IF page_results = <<>> THEN res
    ELSE LET page_result == Head(page_results)
         IN  IF page_result.tag = "Ok"
             THEN CollectUntilErr([res EXCEPT !.records = @ \o page_result.records],
                                  Tail(page_results))
             ELSE [res EXCEPT !.errors = Append(@, page_result.err)]

\* What the loop below does to an empty outcome.  extend and push only
\* append, so the loop over a wave appends what it does over the first half
\* of the wave and then what it does over the second half.
RECURSIVE Gather(_)
Gather(page_results) ==
    IF page_results = <<>> THEN InfraResultNew
    ELSE IF Len(page_results) = 1
    THEN IF page_results[1].tag = "Ok"
         THEN [InfraResultNew EXCEPT !.records = @ \o page_results[1].records]
         ELSE [InfraResultNew EXCEPT !.errors = Append(@, page_results[1].err)]
    ELSE LET half == Len(page_results) \div 2
             first == Gather(SubSeq(page_results, 1, half))
             second == Gather(SubSeq(page_results, half + 1, Len(page_results)))
         IN  [records |-> first.records \o second.records,
              errors |-> first.errors \o second.errors]

\* for page_result in batch_results { match page_result { Ok(records) =>
\* result.records.extend(records), Err(e) => result.errors.push(e) } }
Collect(res, page_results) ==
    [records |-> res.records \o Gather(page_results).records,
     errors |-> res.errors \o Gather(page_results).errors]

\* Variant that yields the outputs in completion order, as an unordered
\* stream of futures would.
JoinAllUnordered(c, done, order) ==
    [i \in 1..Len(c) |-> order[Len(order) - Len(c) + i].output]

\* join_all(futures).await yields the outputs in the order the futures were
\* given, which is the order of the chunk; the order in which they completed
\* (order, the completion history) has no influence on it.
JoinAllOutput(c, done, order) == [i \in 1..Len(c) |-> done[c[i]]]

\* Variant that never becomes ready.
JoinReadyNever(done) == FALSE

\* Variant that is ready as soon as one future has produced its output.
JoinReadyAny(done) == \E o \in DOMAIN done : done[o] # Pending

\* join_all is ready once every future of the wave has produced its output.
JoinReady(done) == \A o \in DOMAIN done : done[o] # Pending

\* Variant that pauses after every non-empty wave.
NeedsDelayAlways(c, offs) == c # <<>>

\* if !chunk.is_empty() && chunk.last() != offsets.last() { sleep(...) }
NeedsDelay(c, offs) == c # <<>> /\ Last(c) # Last(offs)

\* What one page future may resolve to: an error, or up to MaxRecs records.
PageOutcomes(o) == {Err(o)} \cup {Ok(PageRecords(o, n)) : n \in 0..MaxRecs}

(* ---------------------- aggregation: the values ----------------------- *)
\* Identifiers of the grid cells at the zoom of the run.
CellIds == {"A", "B", "C"}

\* InfraHexError values of the pipeline: the variant, and the record (0: the
\* boundary) whose processing raised it.
NoError == [kind |-> "none", at |-> 0]

GeometryError(i) == [kind |-> "Geometry", at |-> i]

HexGridError(i) == [kind |-> "HexGrid", at |-> i]

\* RecordBatch: the kind of table and its rows.
NoTable == [kind |-> "none", rows |-> <<>>]

\* Result<RecordBatch, InfraHexError>, and the absence of a result.
NoBatch == [tag |-> "none", table |-> NoTable, err |-> NoError]

BatchOk(t) == [tag |-> "Ok", table |-> t, err |-> NoError]

BatchErr(e) == [tag |-> "Err", table |-> NoTable, err |-> e]

\* Result<Vec<HexCell>, InfraHexError> of one record inside the parallel
\* map, plus the state of a record not yet mapped.
CellsPending == [tag |-> "Pending", cells |-> <<>>, err |-> NoError]

CellsOk(cells) == [tag |-> "Ok", cells |-> cells, err |-> NoError]

CellsErr(e) == [tag |-> "Err", cells |-> <<>>, err |-> e]

\* The three implementors of BoundaryFilter. cells: the identifiers of the
\* grid cells the boundary intersects at the zoom; on_grid: whether HexGrid
\* can build the grid of the boundary.
Unit == [kind |-> "unit", cells |-> {}, on_grid |-> TRUE]

PolygonFilter(S) == [kind |-> "polygon", cells |-> S, on_grid |-> TRUE]

MultiPolygonFilter(S) == [kind |-> "multipolygon", cells |-> S, on_grid |-> TRUE]

PolygonOffGrid == [kind |-> "polygon", cells |-> {}, on_grid |-> FALSE]

\* geo_shape of a record: the kind of its GeoJSON geometry ("None": the
\* feature has no geometry), the identifiers of the cells the grid resolver
\* returns for it, in the resolver's order, and whether the resolver
\* succeeds on it.
Shape(kind, touched, on_grid) ==
    [geometry |-> kind, touched |-> touched, on_grid |-> on_grid]

SampleShapes ==
    {Shape("None", <<>>, TRUE),
     Shape("Point", <<>>, TRUE),
     Shape("LineString", <<>>, FALSE),
     Shape("LineString", <<"B">>, TRUE),
     Shape("LineString", <<"A", "B">>, TRUE),
     Shape("LineString", <<"A", "C">>, TRUE),
     Shape("MultiLineString", <<"A", "B", "A">>, TRUE)}

\* A record implementing PipelineData: geo_shape and the four optional
\* attributes, which the pipeline only carries through.
PipelineRecord(i, shape) ==
    [asset_id |-> Some(i),
     pipe_type |-> IF i % 2 = 1 THEN Some("LP") ELSE None,
     material |-> IF i % 3 = 1 THEN Some("PE") ELSE None,
     pressure |-> None,
     geo_shape |-> shape]

\* The aggregation pipeline at rest: no records, no call.
AggIdle ==
    /\ records = <<>>
    /\ filter = Unit
    /\ mode = "none"
    /\ agg_pc = "idle"
    /\ valid_ids = None
    /\ extracted = <<>>
    /\ cells_per_pipe = <<>>
    /\ aggregated = [sorted |-> <<>>, cells_map |-> <<>>]
    /\ batch = NoBatch
    /\ previous = [mode |-> "none", filter |-> Unit, batch |-> NoBatch]

(* ------------------------ the client: the values ---------------------- *)
\* InfraHexError::Config("CADENT_API_KEY not set")
ConfigError == [kind |-> "Config", at |-> 0]

\* Result<CadentClient, InfraHexError>, and the absence of a result.
NoClient == [tag |-> "none", api_key |-> None, err |-> NoError]

ClientOk(key) == [tag |-> "Ok", api_key |-> Some(key), err |-> NoError]

ClientErr(e) == [tag |-> "Err", api_key |-> None, err |-> e]

\* The remote API when nothing is asked of it.
NoServer == [count |-> None, pages |-> "none", order |-> "none"]

\* The Cadent client at rest: no run.
CadentIdle ==
    /\ env_api_key = None
    /\ client = NoClient
    /\ cad_pc = "idle"
    /\ server = NoServer
    /\ count_queries = 0
    /\ outcome = None

\* The GeoJSON conversions at rest: no run.
GeoIdle ==
    /\ geo_input = None
    /\ geo_output = None
    /\ geo_pc = "idle"

(* ------------------------------- Init --------------------------------- *)
Configs ==
    [page_size : 0..MaxPageSize,
     batch_size : 0..MaxBatchSize,
     max_offset : {None} \cup {Some(m) : m \in 0..MaxCeiling}]

Init ==
    /\ total_count \in 0..MaxTotal
    /\ config \in Configs
    /\ pc = "start"
    /\ offsets = <<>>
    /\ rest = <<>>
    /\ chunk = <<>>
    /\ batch_results = <<>>
    /\ result = InfraResultNew
    /\ calls = <<>>
    /\ waves = <<>>
    /\ completion = <<>>
    /\ pauses = 0
    /\ AggIdle
    /\ CadentIdle
    /\ GeoIdle

(* ------------------------------ actions ------------------------------- *)
\* Variant of Begin that returns the empty outcome for a zero page_size or
\* batch_size instead of panicking.
BeginZeroSizeReturns ==
    /\ pc = "start"
    /\ IF IsEmptyCount(total_count) \/ config.page_size = 0
          \/ config.batch_size = 0
          THEN /\ pc' = "done"
               /\ UNCHANGED <<offsets, rest>>
          ELSE LET offs == StepBy(0, Fetchable(total_count, config.max_offset),
                                  config.page_size)
               IN  /\ offsets' = offs
                   /\ rest' = offs
                   /\ pc' = IF offs = <<>> THEN "done" ELSE "issue"
    /\ UNCHANGED <<total_count, config, chunk, batch_results, result, calls,
                   waves, completion, pauses>>
    /\ UNCHANGED <<aggVars, cadentVars, geoVars>>

\* Entry of fetch_all_pages up to the head of the for loop: the early
\* return, fetchable, the offsets, and the construction of chunks().
\* step_by(0) and chunks(0) both panic.
Begin ==
    /\ pc = "start"
    /\ IF IsEmptyCount(total_count)
          THEN /\ pc' = "done"
               /\ UNCHANGED <<offsets, rest>>
          ELSE IF config.page_size = 0
          THEN /\ pc' = "panic"
               /\ UNCHANGED <<offsets, rest>>
          ELSE LET offs == StepBy(0, Fetchable(total_count, config.max_offset),
                                  config.page_size)
               IN  /\ offsets' = offs
                   /\ rest' = offs
                   /\ pc' = IF config.batch_size = 0 THEN "panic"
                            ELSE IF offs = <<>> THEN "done"
                            ELSE "issue"
    /\ UNCHANGED <<total_count, config, chunk, batch_results, result, calls,
                   waves, completion, pauses>>
    /\ UNCHANGED <<aggVars, cadentVars, geoVars>>

\* The loop takes the next chunk and creates one page future per offset.
IssueWave ==
    /\ pc = "issue"
    /\ LET c == FirstChunk(rest, config.batch_size)
       IN  /\ chunk' = c
           /\ rest' = AfterChunk(rest, config.batch_size)
           /\ calls' = calls \o FetchCalls(c, config.page_size)
           /\ batch_results' = [o \in Elems(c) |-> Pending]
           /\ waves' = Append(waves, c)
    /\ pc' = "await"
    /\ UNCHANGED <<total_count, config, offsets, result, completion, pauses>>
    /\ UNCHANGED <<aggVars, cadentVars, geoVars>>

\* Inside join_all: one page future of the wave resolves.
CompletePage ==
    /\ pc = "await"
    /\ \E o \in DOMAIN batch_results :
         /\ batch_results[o] = Pending
         /\ \E r \in PageOutcomes(o) :
              /\ batch_results' = [batch_results EXCEPT ![o] = r]
              /\ completion' = Append(completion, [offset |-> o, output |-> r])
    /\ UNCHANGED <<total_count, config, pc, offsets, rest, chunk, result,
                   calls, waves, pauses>>
    /\ UNCHANGED <<aggVars, cadentVars, geoVars>>

\* Variant of JoinWave that abandons the remaining waves when a page of the
\* wave failed.
JoinWaveFailFast ==
    /\ pc = "await"
    /\ JoinReady(batch_results)
    /\ result' = Collect(result, JoinAllOutput(chunk, batch_results, completion))
    /\ batch_results' = <<>>
    /\ pc' = IF \E o \in DOMAIN batch_results : batch_results[o].tag = "Err"
               THEN "done"
             ELSE IF NeedsDelay(chunk, offsets) THEN "sleep"
             ELSE IF rest = <<>> THEN "done"
             ELSE "issue"
    /\ UNCHANGED <<total_count, config, offsets, rest, chunk, calls, waves,
                   completion, pauses>>
    /\ UNCHANGED <<aggVars, cadentVars, geoVars>>

\* join_all returns; the results are folded into the outcome; the loop
\* decides between the pause, the next chunk and the return.
JoinWave ==
    /\ pc = "await"
    /\ JoinReady(batch_results)
    /\ result' = Collect(result, JoinAllOutput(chunk, batch_results, completion))
    /\ batch_results' = <<>>
    /\ pc' = IF NeedsDelay(chunk, offsets) THEN "sleep"
             ELSE IF rest = <<>> THEN "done"
             ELSE "issue"
    /\ UNCHANGED <<total_count, config, offsets, rest, chunk, calls, waves,
                   completion, pauses>>
    /\ UNCHANGED <<aggVars, cadentVars, geoVars>>

\* sleep(config.batch_delay).await, then the loop head.
Sleep ==
    /\ pc = "sleep"
    /\ pauses' = pauses + 1
    /\ pc' = IF rest = <<>> THEN "done" ELSE "issue"
    /\ UNCHANGED <<total_count, config, offsets, rest, chunk, batch_results,
                   result, calls, waves, completion>>
    /\ UNCHANGED <<aggVars, cadentVars, geoVars>>

Next ==
    \/ Begin
    \/ IssueWave
    \/ CompletePage
    \/ JoinWave
    \/ Sleep

Spec == Init /\ [][Next]_vars

(* ===================== definitions used by the claims ================= *)
Min(a, b) == IF a <= b THEN a ELSE b

CeilDiv(a, b) == (a + b - 1) \div b

\* fetchable as the specification states it.
SpecFetchable ==
    IF config.max_offset = None THEN total_count
    ELSE Min(total_count, config.max_offset[1])

Returned == pc = "done"

CallOffsets == [i \in 1..Len(calls) |-> calls[i][1]]

Started == Elems(CallOffsets)

Completed == {completion[i].offset : i \in 1..Len(completion)}

InFlight == Started \ Completed

(* ------------------------------- C1 ----------------------------------- *)
\* C1: a call with total_count = 0 never panics, never invokes the page
\* fetcher, never pauses, and its outcome has zero records and zero errors.
C1_EmptyCountNoFetch ==
    total_count = 0 =>
        /\ pc \in {"start", "done"}
        /\ calls = <<>>
        /\ pauses = 0
        /\ result.records = <<>>
        /\ result.errors = <<>>

\* A call with total_count = 0 has returned, under a configuration that
\* would otherwise panic in step_by.
C1_Witness == total_count = 0 /\ Returned /\ config.page_size = 0

(* ------------------------------- C2 ----------------------------------- *)
\* C2: a call that returns has invoked the page fetcher exactly
\* ceil(fetchable / page_size) times, fetchable = min(total_count,
\* max_offset) under a ceiling and total_count otherwise.
C2_FetchCount ==
    (Returned /\ config.page_size >= 1) =>
        Len(calls) = CeilDiv(SpecFetchable, config.page_size)

\* total_count above the ceiling, ceiling not a multiple of page_size.
C2_Witness ==
    /\ Returned
    /\ config.max_offset # None
    /\ total_count > config.max_offset[1]
    /\ config.page_size = 2
    /\ config.max_offset[1] = 3
    /\ Len(calls) = 2

(* ------------------------------- C3 ----------------------------------- *)
\* C3 as stated: every total_count <= page_size gives exactly one fetch.
C3_Original ==
    (Returned /\ total_count <= config.page_size) => Len(calls) = 1

\* C3 amended: for 1 <= total_count <= page_size and a ceiling that is
\* absent or at least 1, a call that returns made exactly one page fetch.
C3_SinglePage ==
    (/\ Returned
     /\ 1 <= total_count
     /\ total_count <= config.page_size
     /\ (config.max_offset = None \/ config.max_offset[1] >= 1))
        => Len(calls) = 1

C3_Witness ==
    /\ Returned
    /\ total_count = config.page_size
    /\ total_count = 2
    /\ config.max_offset = None
    /\ Len(calls) = 1

(* ------------------------------- C4 ----------------------------------- *)
OkPages == {i \in 1..Len(completion) : completion[i].output.tag = "Ok"}

ErrPages == {i \in 1..Len(completion) : completion[i].output.tag = "Err"}

OkRecords == UNION {Elems(completion[i].output.records) : i \in OkPages}

\* C4: whatever pages fail, the call returns; the records of its outcome are
\* exactly the records of the pages that succeeded, each once, and its
\* errors are exactly one per failed page.
C4_FailuresAdditive ==
    /\ pc # "panic" \/ calls = <<>>
    /\ Returned =>
          /\ Elems(result.records) = OkRecords
          /\ Len(result.records) = Cardinality(OkRecords)
          /\ Elems(result.errors) = {completion[i].offset : i \in ErrPages}
          /\ Len(result.errors) = Cardinality(ErrPages)
          /\ Len(completion) = Len(calls)

\* A returned call in which a page failed before a sibling that succeeded
\* with records.
C4_Witness ==
    /\ Returned
    /\ Len(waves) = 1
    /\ Len(calls) >= 2
    /\ completion[1].output.tag = "Err"
    /\ completion[1].offset = 0
    /\ result.records # <<>>
    /\ Len(result.errors) = 1

\* Every issued page failed.
C4_WitnessAllFail ==
    /\ Returned
    /\ Len(calls) >= 3
    /\ Len(result.errors) = Len(calls)
    /\ result.records = <<>>

(* ------------------------------- C5 ----------------------------------- *)
\* The offsets 0, page_size, 2*page_size, ... below fetchable.
SpecOffsets ==
    {o \in 0..(SpecFetchable - 1) : o % config.page_size = 0}

TimesRequested(o) == Cardinality({i \in 1..Len(calls) : calls[i][1] = o})

\* C5: no offset is requested twice, only offsets of the sequence are
\* requested, and a call that returns has requested every one of them,
\* whatever the other pages resolved to.
C5_EveryOffsetOnce ==
    config.page_size >= 1 =>
        /\ \A o \in Started : TimesRequested(o) = 1 /\ o \in SpecOffsets
        /\ Returned /\ total_count >= 1 => Started = SpecOffsets

\* A failure in the first wave, and a later wave still issued and joined.
C5_Witness ==
    /\ Returned
    /\ Len(waves) >= 2
    /\ completion[1].output.tag = "Err"
    /\ Len(completion) = Cardinality(SpecOffsets)

(* ------------------------------- C6 ----------------------------------- *)
\* C6: page fetches are in flight only while their own wave is awaited, and
\* every fetch of every earlier wave has completed.
C6_WavesSequential ==
    /\ pc # "await" => InFlight = {}
    /\ InFlight \subseteq Elems(chunk)
    /\ \A k \in 1..(Len(waves) - 1) : Elems(waves[k]) \subseteq Completed

\* The second wave is partly complete.
C6_Witness ==
    /\ pc = "await"
    /\ Len(waves) >= 2
    /\ InFlight # {}
    /\ InFlight # Elems(chunk)

(* ------------------------------- C7 ----------------------------------- *)
\* C7: at most batch_size fetches are in flight, no wave has more than
\* batch_size offsets, and every wave followed by another has exactly
\* batch_size.
C7_BoundedWaves ==
    /\ Cardinality(InFlight) <= config.batch_size
    /\ \A k \in 1..Len(waves) :
          /\ Len(waves[k]) <= config.batch_size
          /\ Len(waves[k]) >= 1
          /\ k < Len(waves) => Len(waves[k]) = config.batch_size

\* Full waves of two fetches in flight, and a shorter last wave.
C7_Witness ==
    /\ Returned
    /\ Len(waves) >= 2
    /\ config.batch_size >= 2
    /\ Len(waves[Len(waves)]) < config.batch_size

C7_WitnessFull ==
    /\ config.batch_size >= 2
    /\ Cardinality(InFlight) = config.batch_size

(* ------------------------------- C8 ----------------------------------- *)
\* C8: the k-th pause lies between the join of wave k and the issue of wave
\* k+1, and there is none after the last wave: W >= 1 waves, W - 1 pauses.
C8_PausesBetweenWaves ==
    /\ pc = "issue" => pauses = Len(waves)
    /\ pc = "await" => pauses = Len(waves) - 1
    /\ pc = "sleep" => /\ pauses = Len(waves) - 1
                       /\ InFlight = {}
                       /\ rest # <<>>
    /\ Returned /\ Len(waves) >= 1 => pauses = Len(waves) - 1
    /\ Len(waves) = 0 => pauses = 0

C8_Witness == Returned /\ Len(waves) = 3 /\ pauses = 2

C8_WitnessOneWave == Returned /\ Len(waves) = 1 /\ pauses = 0 /\ Len(calls) = 2

(* ------------------------------- C9 ----------------------------------- *)
\* C9 as stated: with a ceiling below page_size (and something to fetch
\* below it) the call issues exactly one request, whose limit does not
\* exceed the ceiling.
C9_Original ==
    (/\ config.max_offset # None
     /\ config.max_offset[1] < config.page_size)
        => /\ \A i \in 1..Len(calls) : calls[i][2] <= config.max_offset[1]
           /\ (Returned /\ total_count >= 1 /\ config.max_offset[1] >= 1)
                 => Len(calls) = 1

(* ------------------------------- C10 ---------------------------------- *)
RECURSIVE Flatten(_)
Flatten(ss) == IF ss = <<>> THEN <<>> ELSE Head(ss) \o Flatten(Tail(ss))

OutputOf(o) ==
    (CHOOSE e \in Elems(completion) : e.offset = o).output

\* C10 as stated: within a wave the records follow completion order.
C10_Original ==
    Returned =>
        result.records =
            Flatten([i \in 1..Len(completion) |-> completion[i].output.records])

\* C10 amended: the records are ordered by wave and, within a wave, by the
\* order in which the wave's fetches were issued (ascending offset),
\* whatever order they completed in.
C10_IssueOrder ==
    Returned =>
        result.records =
            Flatten([i \in 1..Len(calls) |-> OutputOf(calls[i][1]).records])

\* Two pages of one wave, both with records, completed in reverse order.
C10_Witness ==
    /\ Returned
    /\ Len(completion) >= 2
    /\ completion[1].offset > completion[2].offset
    /\ completion[1].output.records # <<>>
    /\ completion[2].output.records # <<>>

(* ------------------------------- C11 ---------------------------------- *)
\* Variant that takes an outcome without records for incomplete.
IsCompleteHasRecords(res) == Len(res.errors) = 0 /\ Len(res.records) > 0

\* InfraResult::is_complete: self.errors.is_empty()
IsComplete(res) == Len(res.errors) = 0

\* InfraResult::has_errors: !self.errors.is_empty()
HasErrors(res) == ~(Len(res.errors) = 0)

\* C11: for the InfraResult of the call, at every moment, is_complete() is
\* true exactly when the error list is empty and has_errors() is its
\* negation; the returned outcome is complete iff no issued page failed.
C11_CompleteIffNoErrors ==
    /\ IsComplete(result) <=> (result.errors = <<>>)
    /\ HasErrors(result) <=> ~IsComplete(result)
    /\ Returned => (IsComplete(result) <=> ErrPages = {})

\* A returned outcome with records and with an error: not complete.
C11_Witness ==
    /\ Returned
    /\ result.records # <<>>
    /\ ErrPages # {}
    /\ HasErrors(result)
    /\ ~IsComplete(result)

(***************************************************************************)
(* The aggregation pipeline (src/src/core/arrow.rs, src/src/core/hex.rs).  *)
(* A run fixes the record slice and calls to_record_batch_impl or          *)
(* to_hex_summary_impl on it, then once more.  The zoom is fixed for the   *)
(* run; the grid resolver is arbitrary and appears as the cells each       *)
(* sample shape and boundary resolve to.                                   *)
(***************************************************************************)
MaxPipes == 3

Modes == {"record_batch", "hex_summary"}

\* Boundaries a caller may pass: (), polygons, a multipolygon, and a
\* polygon for which HexGrid fails.
Filters ==
    {Unit, PolygonOffGrid, MultiPolygonFilter({"A", "C"})}
        \cup {PolygonFilter(S) : S \in {{}, {"B"}, {"A", "B"}, {"A", "B", "C"}}}

\* Result<Option<HashSet<String>>, InfraHexError>
IdsOk(ids) == [tag |-> "Ok", ids |-> ids, err |-> NoError]

IdsErr(e) == [tag |-> "Err", ids |-> None, err |-> e]

\* BoundaryFilter::valid_cell_ids of (), Polygon<f64> and MultiPolygon<f64>
ValidCellIds(f) ==
    IF f.kind = "unit" THEN IdsOk(None)
    ELSE IF ~f.on_grid THEN IdsErr(HexGridError(0))
    ELSE IdsOk(Some(f.cells))

\* Variant that yields no cells for a record it cannot resolve.
GetHexCellsLenient(record, i) ==
    LET shape == record.geo_shape
    IN  IF shape.geometry \in {"LineString", "MultiLineString"} /\ shape.on_grid
        THEN CellsOk([j \in 1..Len(shape.touched) |->
                         [id |-> shape.touched[j], of |-> i]])
        ELSE CellsOk(<<>>)

\* get_hex_cells, with LineString::from_geojson; i is the position of the
\* record, kept in each cell as the mark of the record it was resolved for.
GetHexCells(record, i) ==
    LET shape == record.geo_shape
    IN  IF shape.geometry = "None" THEN CellsErr(GeometryError(i))
        ELSE IF shape.geometry \notin {"LineString", "MultiLineString"}
             THEN CellsErr(GeometryError(i))
        ELSE IF ~shape.on_grid THEN CellsErr(HexGridError(i))
        ELSE CellsOk([j \in 1..Len(shape.touched) |->
                         [id |-> shape.touched[j], of |-> i]])

\* Variant that takes an empty restriction set for no restriction.
FilterCellsEmptyIsNone(cells, valid) ==
    IF valid = None \/ valid[1] = {} THEN cells
    ELSE [i \in 1..Len(cells) |->
             SelectSeq(cells[i], LAMBDA c : c.id \in valid[1])]

\* extract_cells_per_pipeline: match valid_ids { Some(valid) => filter,
\* None => all }
FilterCells(cells, valid) ==
    IF valid = None THEN cells
    ELSE [i \in 1..Len(cells) |->
             SelectSeq(cells[i], LAMBDA c : c.id \in valid[1])]

\* build_pipeline_attributes: the four attribute columns, row by row.
BuildPipelineAttributes(recs) ==
    [i \in 1..Len(recs) |->
        [asset_id |-> recs[i].asset_id, pipe_type |-> recs[i].pipe_type,
         material |-> recs[i].material, pressure |-> recs[i].pressure]]

\* Variant that appends no list for a record without cells.
BuildHexIdsListSkipEmpty(cells) ==
    LET kept == SelectSeq(cells, LAMBDA cs : cs # <<>>)
    IN  [i \in 1..Len(kept) |-> [j \in 1..Len(kept[i]) |-> kept[i][j].id]]

\* build_hex_ids_list: one list per record, one value per cell.
BuildHexIdsList(cells) ==
    [i \in 1..Len(cells) |-> [j \in 1..Len(cells[i]) |-> cells[i][j].id]]

\* RecordBatch::try_new(...).map_err(Geometry) for the per-record table:
\* columns of unequal length are an error.
RecordBatchTryNew(attributes, hex_ids_list) ==
    IF Len(attributes) # Len(hex_ids_list) THEN BatchErr(GeometryError(0))
    ELSE BatchOk([kind |-> "record_batch",
                  rows |-> [i \in 1..Len(attributes) |->
                               [asset_id |-> attributes[i].asset_id,
                                pipe_type |-> attributes[i].pipe_type,
                                material |-> attributes[i].material,
                                pressure |-> attributes[i].pressure,
                                hex_ids |-> hex_ids_list[i]]]])

\* Variant that counts every occurrence of a cell in a record.
FirstInPipeAlways(seen, id) == TRUE

\* seen_in_pipe.insert(cell.id.clone()): true when the id is new in the pipe.
FirstInPipe(seen, id) == id \notin seen

\* Variant whose first count of a cell is 2.
BumpCountFromOne(counts, id) ==
    IF id \in DOMAIN counts THEN [counts EXCEPT ![id] = @ + 1]
    ELSE (id :> 2) @@ counts

\* *counts.entry(cell.id.clone()).or_insert(0) += 1
BumpCount(counts, id) ==
    IF id \in DOMAIN counts THEN [counts EXCEPT ![id] = @ + 1]
    ELSE (id :> 1) @@ counts

\* Variant that overwrites the representative: cells_map.insert(id, cell).
KeepLast(cells_map, cell) ==
    (cell.id :> cell) @@ cells_map

\* cells_map.entry(cell.id.clone()).or_insert(cell)
KeepFirst(cells_map, cell) ==
    IF cell.id \in DOMAIN cells_map THEN cells_map
    ELSE (cell.id :> cell) @@ cells_map

EmptyMap == [id \in {} |-> 0]

\* The inner loop of aggregate_hex_counts over the cells of one pipe.
RECURSIVE CountPipe(_, _, _)
CountPipe(acc, seen_in_pipe, cells) ==
    IF cells = <<>> THEN acc
    ELSE LET cell == Head(cells)
         IN  IF FirstInPipe(seen_in_pipe, cell.id)
             THEN CountPipe([counts |-> BumpCount(acc.counts, cell.id),
                             cells_map |-> KeepFirst(acc.cells_map, cell)],
                            seen_in_pipe \cup {cell.id}, Tail(cells))
             ELSE CountPipe(acc, seen_in_pipe, Tail(cells))

\* Variant that leaves the loop at the first pipe without cells.
RECURSIVE CountPipesUntilEmpty(_, _)
CountPipesUntilEmpty(acc, cells) ==
    IF cells = <<>> \/ Head(cells) = <<>> THEN acc
    ELSE CountPipesUntilEmpty(CountPipe(acc, {}, Head(cells)), Tail(cells))

\* The outer loop of aggregate_hex_counts over the pipes.
RECURSIVE CountPipes(_, _)
CountPipes(acc, cells) ==
    IF cells = <<>> THEN acc
    ELSE CountPipes(CountPipe(acc, {}, Head(cells)), Tail(cells))

\* Variant that sorts by ascending count: a.1.cmp(&b.1).
ComesBeforeAscending(a, b) == a[2] < b[2]

\* sorted.sort_by(|a, b| b.1.cmp(&a.1)): a is ordered before b.
ComesBefore(a, b) == a[2] > b[2]

\* sort_by is stable: an entry goes behind every entry it is not ordered
\* before.
RECURSIVE InsertSorted(_, _)
InsertSorted(sorted, e) ==
    IF sorted = <<>> THEN <<e>>
    ELSE IF ComesBefore(e, Head(sorted)) THEN <<e>> \o sorted
    ELSE <<Head(sorted)>> \o InsertSorted(Tail(sorted), e)

RECURSIVE SortBy(_, _)
SortBy(sorted, entries) ==
    IF entries = <<>> THEN sorted
    ELSE SortBy(InsertSorted(sorted, Head(entries)), Tail(entries))

\* The orders in which a HashMap with the given keys may be iterated.
IterationOrders(keys) ==
    {order \in [1..Cardinality(keys) -> keys] :
        \A i, j \in 1..Cardinality(keys) : order[i] = order[j] => i = j}

\* The keys of the counts map after the loops of aggregate_hex_counts.
CountedIds(cells) ==
    DOMAIN CountPipes([counts |-> EmptyMap, cells_map |-> EmptyMap], cells).counts

\* aggregate_hex_counts; order is the order in which counts.into_iter()
\* yields the entries of the map.
AggregateHexCounts(cells, order) ==
    LET acc == CountPipes([counts |-> EmptyMap, cells_map |-> EmptyMap], cells)
        entries == [k \in 1..Len(order) |-> <<order[k], acc.counts[order[k]]>>]
    IN  [sorted |-> SortBy(<<>>, entries), cells_map |-> acc.cells_map]

\* The hex_id and pipe_count columns of to_hex_summary_impl, row by row.
HexSummaryBatch(sorted) ==
    BatchOk([kind |-> "hex_summary",
             rows |-> [k \in 1..Len(sorted) |->
                          [hex_id |-> sorted[k][1], pipe_count |-> sorted[k][2]]]])

(* ------------------------- aggregation: Init -------------------------- *)
RecordSlices ==
    UNION {{[i \in 1..n |-> PipelineRecord(i, shapes[i])] :
               shapes \in [1..n -> SampleShapes]} : n \in 0..MaxPipes}

FetchIdle ==
    /\ total_count = 0
    /\ config = [page_size |-> 1, batch_size |-> 1, max_offset |-> None]
    /\ pc = "start"
    /\ offsets = <<>>
    /\ rest = <<>>
    /\ chunk = <<>>
    /\ batch_results = <<>>
    /\ result = InfraResultNew
    /\ calls = <<>>
    /\ waves = <<>>
    /\ completion = <<>>
    /\ pauses = 0

InitAgg ==
    /\ FetchIdle
    /\ CadentIdle
    /\ GeoIdle
    /\ records \in RecordSlices
    /\ filter \in Filters
    /\ mode \in Modes
    /\ agg_pc = "start"
    /\ valid_ids = None
    /\ extracted = <<>>
    /\ cells_per_pipe = <<>>
    /\ aggregated = [sorted |-> <<>>, cells_map |-> <<>>]
    /\ batch = NoBatch
    /\ previous = [mode |-> "none", filter |-> Unit, batch |-> NoBatch]

(* ------------------------ aggregation: actions ------------------------ *)
\* let valid_ids = filter.valid_cell_ids(zoom)?; then the parallel map of
\* extract_cells_per_pipeline starts.
ComputeValidIds ==
    /\ agg_pc = "start"
    /\ LET v == ValidCellIds(filter)
       IN  IF v.tag = "Err"
           THEN /\ batch' = BatchErr(v.err)
                /\ agg_pc' = "done"
                /\ UNCHANGED <<valid_ids, extracted>>
           ELSE /\ valid_ids' = v.ids
                /\ extracted' = [i \in 1..Len(records) |-> CellsPending]
                /\ agg_pc' = "extract"
                /\ UNCHANGED batch
    /\ UNCHANGED <<records, filter, mode, cells_per_pipe, aggregated, previous>>
    /\ UNCHANGED <<fetchVars, cadentVars, geoVars>>

\* records.par_iter().map(|record| get_hex_cells(record, zoom)): a worker
\* maps one record, in any order.
MapRecord ==
    /\ agg_pc = "extract"
    /\ \E i \in 1..Len(records) :
         /\ extracted[i] = CellsPending
         /\ extracted' = [extracted EXCEPT ![i] = GetHexCells(records[i], i)]
    /\ UNCHANGED <<records, filter, mode, agg_pc, valid_ids, cells_per_pipe,
                   aggregated, batch, previous>>
    /\ UNCHANGED <<fetchVars, cadentVars, geoVars>>

\* .collect() into Result<Vec<_>, _> and the ?: an error of the map, once
\* there is one, ends the call (whichever the collect saw, the rest of the
\* map may be skipped) and the locals are dropped; without errors the
\* results stand in record order and the restriction is applied.
CollectCells ==
    /\ agg_pc = "extract"
    /\ \/ /\ \E i \in 1..Len(records) :
               /\ extracted[i].tag = "Err"
               /\ batch' = BatchErr(extracted[i].err)
          /\ agg_pc' = "done"
          /\ valid_ids' = None
          /\ extracted' = <<>>
          /\ UNCHANGED cells_per_pipe
       \/ /\ \A i \in 1..Len(records) : extracted[i].tag = "Ok"
          /\ cells_per_pipe' =
                 FilterCells([i \in 1..Len(records) |-> extracted[i].cells],
                             valid_ids)
          /\ agg_pc' = "build"
          /\ extracted' = <<>>
          /\ UNCHANGED <<batch, valid_ids>>
    /\ UNCHANGED <<records, filter, mode, aggregated, previous>>
    /\ UNCHANGED <<fetchVars, cadentVars, geoVars>>

\* The rest of to_record_batch_impl: the attribute columns, the hex_ids
\* column, the batch; the call returns and its locals are dropped.
BuildRecordBatch ==
    /\ agg_pc = "build"
    /\ mode = "record_batch"
    /\ batch' = RecordBatchTryNew(BuildPipelineAttributes(records),
                                  BuildHexIdsList(cells_per_pipe))
    /\ agg_pc' = "done"
    /\ valid_ids' = None
    /\ cells_per_pipe' = <<>>
    /\ UNCHANGED <<records, filter, mode, extracted, aggregated, previous>>
    /\ UNCHANGED <<fetchVars, cadentVars, geoVars>>

\* The rest of to_hex_summary_impl: aggregate_hex_counts, whose map is
\* iterated in an order of the map's own choosing, and the batch; the call
\* returns.
BuildHexSummary ==
    /\ agg_pc = "build"
    /\ mode = "hex_summary"
    /\ \E order \in IterationOrders(CountedIds(cells_per_pipe)) :
         /\ aggregated' = AggregateHexCounts(cells_per_pipe, order)
         /\ batch' = HexSummaryBatch(aggregated'.sorted)
    /\ agg_pc' = "done"
    /\ valid_ids' = None
    /\ cells_per_pipe' = <<>>
    /\ UNCHANGED <<records, filter, mode, extracted, previous>>
    /\ UNCHANGED <<fetchVars, cadentVars, geoVars>>

OtherMode(m) == IF m = "record_batch" THEN "hex_summary" ELSE "record_batch"

\* The caller keeps the result and makes the second call of the run on the
\* same records: the same function without boundary, or the other function
\* with the same boundary.
CallAgain ==
    /\ agg_pc = "done"
    /\ previous.mode = "none"
    /\ previous' = [mode |-> mode, filter |-> filter, batch |-> batch]
    /\ \/ mode' = mode /\ filter' = Unit
       \/ mode' = OtherMode(mode) /\ filter' = filter
    /\ agg_pc' = "start"
    /\ valid_ids' = None
    /\ extracted' = <<>>
    /\ cells_per_pipe' = <<>>
    /\ aggregated' = [sorted |-> <<>>, cells_map |-> <<>>]
    /\ batch' = NoBatch
    /\ UNCHANGED records
    /\ UNCHANGED <<fetchVars, cadentVars, geoVars>>

NextAgg ==
    \/ ComputeValidIds
    \/ MapRecord
    \/ CollectCells
    \/ BuildRecordBatch
    \/ BuildHexSummary
    \/ CallAgain

SpecAgg == InitAgg /\ [][NextAgg]_vars

(* ============ definitions used by the aggregation claims ============== *)
Ids(cells) == [j \in 1..Len(cells) |-> cells[j].id]

\* The cells the resolver returns for record i.
Touched(i) == records[i].geo_shape.touched

\* The touched cells of record i that survive boundary f, as the
\* specification states it.
Surviving(i, f) ==
    IF f.kind = "unit" THEN Touched(i)
    ELSE SelectSeq(Touched(i), LAMBDA id : id \in f.cells)

Resolvable(i) ==
    /\ records[i].geo_shape.geometry \in {"LineString", "MultiLineString"}
    /\ records[i].geo_shape.on_grid

AllResolvable == \A i \in 1..Len(records) : Resolvable(i)

AllTouched == UNION {Elems(Touched(i)) : i \in 1..Len(records)}

AggReturned == agg_pc = "done"

(* ------------------------------- C12 ---------------------------------- *)
\* C12: in cell extraction () yields no restriction and every touched cell
\* of every record survives; a restriction set keeps exactly the touched
\* cells whose identifier is in it, in their order; the empty restriction
\* set is a restriction and removes every cell.
C12_FilterOutcomesDistinct ==
    /\ agg_pc \in {"extract", "build"} =>
          /\ filter.kind = "unit" <=> valid_ids = None
          /\ filter.kind # "unit" => valid_ids = Some(filter.cells)
    /\ agg_pc = "build" =>
          /\ Len(cells_per_pipe) = Len(records)
          /\ \A i \in 1..Len(records) :
                /\ valid_ids = None => Ids(cells_per_pipe[i]) = Touched(i)
                /\ valid_ids # None =>
                      Ids(cells_per_pipe[i]) =
                          SelectSeq(Touched(i), LAMBDA id : id \in valid_ids[1])
                /\ valid_ids = Some({}) => cells_per_pipe[i] = <<>>

\* The empty restriction set has removed the cells of three records.
C12_Witness ==
    /\ agg_pc = "build"
    /\ valid_ids = Some({})
    /\ Len(records) = 3
    /\ \A i \in 1..3 : Touched(i) # <<>> /\ cells_per_pipe[i] = <<>>

\* A restriction set has kept one of the two cells of a record.
C12_WitnessSome ==
    /\ agg_pc = "build"
    /\ valid_ids = Some({"B"})
    /\ Len(records) >= 1
    /\ Touched(1) = <<"A", "B">>
    /\ Ids(cells_per_pipe[1]) = <<"B">>

(* ------------------------------- C13 ---------------------------------- *)
SummaryReturned ==
    AggReturned /\ mode = "hex_summary" /\ batch.tag = "Ok"

\* The records whose surviving cells contain the identifier.
RecordsTouching(id, f) ==
    {i \in 1..Len(records) : id \in Elems(Surviving(i, f))}

\* C13: the count of every row of the per-cell summary is the number of
\* distinct records whose surviving cells contain the row's identifier,
\* however often the resolver returned the cell for a record, and is at
\* least 1.
C13_CountsDistinctRecords ==
    SummaryReturned =>
        \A k \in 1..Len(batch.table.rows) :
            LET row == batch.table.rows[k]
            IN  /\ row.pipe_count = Cardinality(RecordsTouching(row.hex_id, filter))
                /\ row.pipe_count >= 1

\* The resolver returns A twice for the first record; A counts 2 with the
\* second record.
C13_Witness ==
    /\ SummaryReturned
    /\ filter = Unit
    /\ Len(records) = 2
    /\ Touched(1) = <<"A", "B", "A">>
    /\ Touched(2) = <<"A", "C">>
    /\ \E k \in 1..Len(batch.table.rows) :
          batch.table.rows[k] = [hex_id |-> "A", pipe_count |-> 2]

(* ------------------------------- C14 ---------------------------------- *)
SurvivingIds(f) == UNION {Elems(Surviving(i, f)) : i \in 1..Len(records)}

SummaryRow(id, n) == [hex_id |-> id, pipe_count |-> n]

\* C14: the per-cell summary has one row per distinct surviving identifier,
\* in non-increasing order of count; records touching {A,B}, {B}, {A,C}
\* without boundary give (A,2), (B,2) in either order and then (C,1).
C14_OneRowPerCellDescending ==
    SummaryReturned =>
        LET rows == batch.table.rows
        IN  /\ {rows[k].hex_id : k \in 1..Len(rows)} = SurvivingIds(filter)
            /\ Len(rows) = Cardinality(SurvivingIds(filter))
            /\ \A k \in 1..(Len(rows) - 1) :
                  rows[k].pipe_count >= rows[k + 1].pipe_count
            /\ (/\ Len(records) = 3
                /\ filter = Unit
                /\ Touched(1) = <<"A", "B">>
                /\ Touched(2) = <<"B">>
                /\ Touched(3) = <<"A", "C">>)
                  => rows \in
                       {<<SummaryRow("A", 2), SummaryRow("B", 2), SummaryRow("C", 1)>>,
                        <<SummaryRow("B", 2), SummaryRow("A", 2), SummaryRow("C", 1)>>}

\* The scenario of the specification has been summarised.
C14_Witness ==
    /\ SummaryReturned
    /\ Len(records) = 3
    /\ filter = Unit
    /\ Touched(1) = <<"A", "B">>
    /\ Touched(2) = <<"B">>
    /\ Touched(3) = <<"A", "C">>
    /\ batch.table.rows[3] = SummaryRow("C", 1)

(* ------------------------------- C15 ---------------------------------- *)
\* The run has made both of its calls and both have returned.
BothReturned == AggReturned /\ previous.mode # "none"

\* C15 as stated: two per-cell summary calls of one run on the same
\* records, zoom and filter produce the same rows in the same order,
\* cells of equal count included.
C15_Original ==
    (/\ BothReturned
     /\ previous.mode = "hex_summary"
     /\ mode = "hex_summary"
     /\ previous.filter = filter
     /\ previous.batch.tag = "Ok"
     /\ batch.tag = "Ok")
        => batch.table.rows = previous.batch.table.rows

(* ------------------------------- C16 ---------------------------------- *)
RecordBatchReturned == AggReturned /\ mode = "record_batch"

\* C16: the per-record table has one row per input record, in input order,
\* under every filter and every interleaving of the parallel map: row i
\* carries the attributes of record i and the surviving cells of record i,
\* also when none survives.
C16_OneRowPerRecordInOrder ==
    /\ (RecordBatchReturned /\ AllResolvable /\ filter.on_grid)
          => batch.tag = "Ok"
    /\ (RecordBatchReturned /\ batch.tag = "Ok") =>
          LET rows == batch.table.rows
          IN  /\ Len(rows) = Len(records)
              /\ \A i \in 1..Len(records) :
                    /\ rows[i].asset_id = records[i].asset_id
                    /\ rows[i].pipe_type = records[i].pipe_type
                    /\ rows[i].material = records[i].material
                    /\ rows[i].pressure = records[i].pressure
                    /\ rows[i].hex_ids = Surviving(i, filter)

\* Three records under a boundary that leaves the third without cells.
C16_Witness ==
    /\ RecordBatchReturned
    /\ batch.tag = "Ok"
    /\ filter = PolygonFilter({"B"})
    /\ Len(records) = 3
    /\ Touched(1) = <<"B">>
    /\ Touched(2) = <<"A", "B">>
    /\ Touched(3) = <<"A", "C">>
    /\ batch.table.rows[3].asset_id = Some(3)
    /\ batch.table.rows[3].hex_ids = <<>>

(* ------------------------------- C17 ---------------------------------- *)
NoDuplicates(seq) ==
    \A i, j \in 1..Len(seq) : seq[i] = seq[j] => i = j

\* The identifiers of seq, each kept at its first occurrence only.
RECURSIVE FirstEncounter(_)
FirstEncounter(seq) ==
    IF seq = <<>> THEN <<>>
    ELSE LET front == FirstEncounter(SubSeq(seq, 1, Len(seq) - 1))
         IN  IF seq[Len(seq)] \in Elems(front) THEN front
             ELSE Append(front, seq[Len(seq)])

\* C17 (as stated): in the per-record table no identifier occurs twice in
\* the cell list of one row, and the identifiers of a row are those of the
\* record's surviving cells in order of first encounter.
C17_Original ==
    (RecordBatchReturned /\ batch.tag = "Ok") =>
        \A i \in 1..Len(batch.table.rows) :
            /\ NoDuplicates(batch.table.rows[i].hex_ids)
            /\ batch.table.rows[i].hex_ids = FirstEncounter(Surviving(i, filter))

(* ------------------------------- C18 ---------------------------------- *)
\* Two calls of one mode on the same records: the first restricted to exactly
\* the cells any record touches, the second without a filter.
AllTouchedThenUnfiltered ==
    /\ BothReturned
    /\ previous.mode = mode
    /\ previous.filter.kind # "unit"
    /\ previous.filter.on_grid
    /\ previous.filter.cells = AllTouched
    /\ filter = Unit
    /\ previous.batch.tag = "Ok"
    /\ batch.tag = "Ok"

\* C18 (as stated): aggregating, per record or per cell, with a restriction
\* set equal to the set of all cells touched by any record yields a result
\* identical to aggregating with no filter.
C18_Original ==
    AllTouchedThenUnfiltered => batch = previous.batch

\* What the two calls do agree on: the per-record table row for row, and
\* the rows of the per-cell summary as a set.
C18_SameUpToTieOrder ==
    AllTouchedThenUnfiltered =>
        /\ mode = "record_batch" => batch = previous.batch
        /\ mode = "hex_summary" =>
              /\ Elems(batch.table.rows) = Elems(previous.batch.table.rows)
              /\ Len(batch.table.rows) = Len(previous.batch.table.rows)

(* ------------------------------- C19 ---------------------------------- *)
\* Two calls on the same records and filter, one in each mode.
BothProjections ==
    /\ BothReturned
    /\ previous.mode # mode
    /\ previous.filter = filter
    /\ previous.batch.tag = "Ok"
    /\ batch.tag = "Ok"

RecordRows == IF mode = "record_batch" THEN batch.table.rows
              ELSE previous.batch.table.rows

SummaryRows == IF mode = "hex_summary" THEN batch.table.rows
               ELSE previous.batch.table.rows

\* The per-record table folded into per-cell counts, an identifier counted
\* once for each row whose list holds it.
FoldRecordRows(rows) ==
    LET ids == UNION {Elems(rows[i].hex_ids) : i \in 1..Len(rows)}
    IN  {<<id, Cardinality({i \in 1..Len(rows) : id \in Elems(rows[i].hex_ids)})>>
            : id \in ids}

SummaryMapping(rows) == {<<rows[k].hex_id, rows[k].pipe_count>> : k \in 1..Len(rows)}

\* C19: for the same records and filter, the per-record table folded into
\* per-cell counts is exactly the identifier-to-count mapping of the
\* per-cell summary.
C19_ProjectionsAgree ==
    BothProjections =>
        /\ FoldRecordRows(RecordRows) = SummaryMapping(SummaryRows)
        /\ Len(SummaryRows) = Cardinality(SummaryMapping(SummaryRows))

\* A record crossing cell A twice and a second record in A: A counts 2, B 1.
C19_Witness ==
    /\ BothProjections
    /\ mode = "hex_summary"
    /\ filter = PolygonFilter({"A", "B"})
    /\ Len(records) = 2
    /\ Touched(1) = <<"A", "B", "A">>
    /\ Touched(2) = <<"A", "C">>
    /\ SummaryMapping(SummaryRows) = {<<"A", 2>>, <<"B", 1>>}
    /\ RecordRows[1].hex_ids = <<"A", "B", "A">>

\* The C18 scenario with two tied cells returned in two orders.
C18_Reached ==
    /\ AllTouchedThenUnfiltered
    /\ AllTouched = {"A", "B"}
    /\ mode = "hex_summary"
    /\ batch # previous.batch

(* ------------------------------- C20 ---------------------------------- *)
Unresolvable == {i \in 1..Len(records) : ~Resolvable(i)}

\* C20: when the geometry of any one record fails (no geometry, a geometry
\* that is neither LineString nor MultiLineString, or a resolver error) the
\* call returns an error and no table, in either mode; with a boundary that
\* resolves, the error is that of one of the failing records.
C20_AnyGeometryFailureIsFatal ==
    (AggReturned /\ Unresolvable # {}) =>
        /\ batch.tag = "Err"
        /\ batch.table = NoTable
        /\ filter.on_grid =>
              /\ batch.err.at \in Unresolvable
              /\ batch.err = GetHexCells(records[batch.err.at], batch.err.at).err

\* Three records of which only the second fails: no table over the other two.
C20_Witness ==
    /\ AggReturned
    /\ Len(records) = 3
    /\ Unresolvable = {2}
    /\ records[2].geo_shape.geometry = "Point"
    /\ Touched(1) = <<"A", "B">>
    /\ Touched(3) = <<"B">>
    /\ filter = Unit
    /\ mode = "record_batch"
    /\ batch = BatchErr(GeometryError(2))

\* The same in the per-cell mode, with a resolver error and a missing
\* geometry on two different records.
C20_WitnessSummary ==
    /\ AggReturned
    /\ Len(records) = 3
    /\ Unresolvable = {1, 3}
    /\ records[1].geo_shape.geometry = "None"
    /\ ~records[3].geo_shape.on_grid
    /\ mode = "hex_summary"
    /\ batch = BatchErr(HexGridError(3))

(* ===================== the Cadent client: the model =================== *)
\* page_size: 100
DefaultPageSize == 100

\* batch_size: 100
DefaultBatchSize == 100

\* max_offset: Some(10_000)
OpenDataSoftMaxOffset == 10000

\* PaginationConfig::default(), without its batch_delay.
PaginationConfigDefault ==
    [page_size |-> DefaultPageSize,
     batch_size |-> DefaultBatchSize,
     max_offset |-> None]

\* Variant that forgets the ceiling.
OpenDataSoftNoCeiling == PaginationConfigDefault

\* PaginationConfig::opendatasoft()
OpenDataSoft ==
    [PaginationConfigDefault EXCEPT !.max_offset = Some(OpenDataSoftMaxOffset)]

\* Variant that builds a client without a key.
CadentClientNewKeyless(env) == [tag |-> "Ok", api_key |-> env, err |-> NoError]

\* CadentClient::new: std::env::var("CADENT_API_KEY").map_err(Config)?
CadentClientNew(env) ==
    IF env = None THEN ClientErr(ConfigError) ELSE ClientOk(env[1])

\* The error fetch_json returns for the count query; the error of a page is
\* the offset of the page.
CountQueryFailed == -2

\* Variant that drops the error of the count query.
CountFailureSwallowed(e) == InfraResultNew

\* Err(e) => { let mut result = InfraResult::new(); result.errors.push(e); return result; }
CountFailure(e) == [InfraResultNew EXCEPT !.errors = Append(@, e)]

\* The total_count values the count query may report.
ReportedCounts == {0, 1, 99, 100, 101, 250, 9900, 9901, 10000, 10001, 25000}

\* How the remote API behaves during one run: the count query fails (None)
\* or reports a total; the pages all succeed, all fail, or fail every second
\* page; the answers to the requests of a wave arrive in the order issued
\* or in the reverse order.
Servers ==
    [count : {None} \cup {Some(n) : n \in ReportedCounts},
     pages : {"ok", "fail", "mixed"},
     order : {"issued", "reversed"}]

\* CadentClient::fetch_page(bbox, limit, offset): Ok(response.results) or
\* the error of fetch_json.
ServerPage(pages, o, limit) ==
    IF pages = "fail" \/ (pages = "mixed" /\ (o \div limit) % 2 = 1)
    THEN Err(o)
    ELSE Ok(PageRecords(o, 1))

\* The pending request of the wave that is answered next.
NextAnswered(order, done) ==
    LET pending == {o \in DOMAIN done : done[o] = Pending}
    IN  IF order = "issued"
        THEN CHOOSE o \in pending : \A q \in pending : o <= q
        ELSE CHOOSE o \in pending : \A q \in pending : o >= q

\* The fetch orchestrator before fetch_all_pages is called.
FetchNotCalled ==
    /\ total_count = 0
    /\ config = OpenDataSoft
    /\ pc = "idle"
    /\ offsets = <<>>
    /\ rest = <<>>
    /\ chunk = <<>>
    /\ batch_results = <<>>
    /\ result = InfraResultNew
    /\ calls = <<>>
    /\ waves = <<>>
    /\ completion = <<>>
    /\ pauses = 0

InitCadent ==
    /\ FetchNotCalled
    /\ AggIdle
    /\ GeoIdle
    /\ env_api_key \in {None, Some("key")}
    /\ client = NoClient
    /\ cad_pc = "new"
    /\ server \in Servers
    /\ count_queries = 0
    /\ outcome = None

\* CadentClient::new()
CadentNew ==
    /\ cad_pc = "new"
    /\ client' = CadentClientNew(env_api_key)
    /\ cad_pc' = IF CadentClientNew(env_api_key).tag = "Ok" THEN "ready"
                 ELSE "no_client"
    /\ UNCHANGED <<env_api_key, server, count_queries, outcome>>
    /\ UNCHANGED <<fetchVars, aggVars, geoVars>>

\* fetch_all_by_bbox up to the call of fetch_all_pages: the count query and
\* the match on its result.
CountQuery ==
    /\ cad_pc = "ready"
    /\ client.tag = "Ok"
    /\ count_queries' = count_queries + 1
    /\ IF server.count = None
          THEN /\ outcome' = Some(CountFailure(CountQueryFailed))
               /\ cad_pc' = "returned"
               /\ UNCHANGED <<total_count, config, pc>>
          ELSE /\ total_count' = server.count[1]
               /\ config' = OpenDataSoft
               /\ pc' = "start"
               /\ cad_pc' = "pages"
               /\ UNCHANGED outcome
    /\ UNCHANGED <<offsets, rest, chunk, batch_results, result, calls, waves,
                   completion, pauses>>
    /\ UNCHANGED <<env_api_key, client, server>>
    /\ UNCHANGED <<aggVars, geoVars>>

\* Inside join_all: the remote API answers one page request of the wave.
CadentFetchPage ==
    /\ cad_pc = "pages"
    /\ pc = "await"
    /\ ~JoinReady(batch_results)
    /\ LET o == NextAnswered(server.order, batch_results)
           r == ServerPage(server.pages, o, config.page_size)
       IN  /\ batch_results' = [batch_results EXCEPT ![o] = r]
           /\ completion' = Append(completion, [offset |-> o, output |-> r])
    /\ UNCHANGED <<total_count, config, pc, offsets, rest, chunk, result,
                   calls, waves, pauses>>
    /\ UNCHANGED <<aggVars, cadentVars, geoVars>>

\* fetch_all_pages(...).await returns and its outcome is the outcome of
\* fetch_all_by_bbox.
CadentReturn ==
    /\ cad_pc = "pages"
    /\ pc = "done"
    /\ outcome' = Some(result)
    /\ cad_pc' = "returned"
    /\ UNCHANGED <<env_api_key, client, server, count_queries>>
    /\ UNCHANGED <<fetchVars, aggVars, geoVars>>

\* The steps of fetch_all_pages are those of the orchestrator above.  Its
\* pause (Sleep) is no step of this specification: a run that asks for it
\* stays at pc = "sleep".
NextCadent ==
    \/ CadentNew
    \/ CountQuery
    \/ Begin
    \/ IssueWave
    \/ CadentFetchPage
    \/ JoinWave
    \/ CadentReturn

SpecCadent == InitCadent /\ [][NextCadent]_vars

(* ------------------------------- C21 ---------------------------------- *)
\* C21: when CADENT_API_KEY is absent CadentClient::new returns the
\* Configuration error as a value; no client exists, and neither a count
\* query nor a page request is ever issued.
C21_MissingKeyIsConfigError ==
    (env_api_key = None /\ cad_pc # "new") =>
        /\ client = ClientErr(ConfigError)
        /\ cad_pc = "no_client"
        /\ count_queries = 0
        /\ calls = <<>>
        /\ outcome = None

\* CadentClient::new has returned without a key in the environment.
C21_Witness ==
    /\ env_api_key = None
    /\ cad_pc = "no_client"
    /\ client.tag = "Err"
    /\ client.err.kind = "Config"

(* ------------------------------- C22 ---------------------------------- *)
\* Largest total_count of the runs checked for termination.
MaxFairTotal == 4

InitFair ==
    /\ Init
    /\ total_count <= MaxFairTotal

\* The orchestrator under a scheduler that keeps running the task, a timer
\* that fires, and page fetches that each complete at some time.
SpecFair ==
    /\ InitFair
    /\ [][Next]_vars
    /\ WF_vars(Begin)
    /\ WF_vars(IssueWave)
    /\ WF_vars(CompletePage)
    /\ WF_vars(JoinWave)
    /\ WF_vars(Sleep)

ValidSizes == config.page_size >= 1 /\ config.batch_size >= 1

\* P, the number of page offsets.
PageOffsetCount ==
    IF total_count = 0 THEN 0 ELSE CeilDiv(SpecFetchable, config.page_size)

\* C22: for page_size >= 1 and batch_size >= 1, when every issued page
\* fetch eventually completes, fetch_all_pages eventually returns, and it
\* returns after exactly ceil(P / batch_size) waves.
C22_Terminates ==
    /\ ValidSizes ~> Returned
    /\ [](Returned /\ ValidSizes =>
             Len(waves) = CeilDiv(PageOffsetCount, config.batch_size))

\* A call that returned after two waves of three pages, one of them failed.
C22_Witness ==
    /\ Returned
    /\ ValidSizes
    /\ Len(offsets) = 3
    /\ config.batch_size = 2
    /\ Len(waves) = 2
    /\ Len(completion) = 3
    /\ Len(result.errors) = 1

(* ------------------------------- C23 ---------------------------------- *)
\* The bijections of 1..n onto itself.
RecordOrders(n) ==
    {p \in [1..n -> 1..n] : \A i, j \in 1..n : p[i] = p[j] => i = j}

\* The surviving cells of the records taken in the order p.
PermutedCells(p) ==
    [k \in 1..Len(records) |->
        [j \in 1..Len(Surviving(p[k], filter)) |->
            [id |-> Surviving(p[k], filter)[j], of |-> p[k]]]]

\* The identifier-to-count mapping aggregate_hex_counts builds from cells.
CountMapping(cells) ==
    LET counts == CountPipes([counts |-> EmptyMap, cells_map |-> EmptyMap],
                             cells).counts
    IN  {<<id, counts[id]>> : id \in DOMAIN counts}

\* C23: the identifier-to-count mapping of the returned per-cell summary is
\* the one the fold yields for every permutation of the records.
C23_CountsIgnoreRecordOrder ==
    (SummaryReturned /\ batch.tag = "Ok") =>
        \A p \in RecordOrders(Len(records)) :
            CountMapping(PermutedCells(p)) = SummaryMapping(batch.table.rows)

\* Three records of which the second keeps no cell under the boundary.
C23_Witness ==
    /\ SummaryReturned
    /\ batch.tag = "Ok"
    /\ filter = MultiPolygonFilter({"A", "C"})
    /\ Len(records) = 3
    /\ Touched(1) = <<"A", "B">>
    /\ Touched(2) = <<"B">>
    /\ Touched(3) = <<"A", "C">>
    /\ SummaryMapping(batch.table.rows) = {<<"A", 2>>, <<"C", 1>>}

(* ------------------------------- C24 ---------------------------------- *)
\* The page a record of the outcome came from.
PageOf(rec) == rec[1]

\* C24: in the outcome every record of the page at offset a precedes every
\* record of the page at offset b whenever a < b, and the errors of the
\* failed pages are listed in ascending order of the offsets of these
\* pages, in whatever order the fetches of a wave completed.
C24_AscendingOffsets ==
    /\ \A i, j \in 1..Len(result.records) :
          PageOf(result.records[i]) < PageOf(result.records[j]) => i < j
    /\ \A i, j \in 1..Len(result.errors) :
          i < j => result.errors[i] < result.errors[j]

\* Two waves of two pages each: the first wave succeeds and the second
\* fails, each completing in the reverse of the order issued.
C24_Witness ==
    /\ Returned
    /\ Len(waves) = 2
    /\ Len(waves[1]) = 2
    /\ Len(waves[2]) = 2
    /\ Len(completion) = 4
    /\ completion[1].offset > completion[2].offset
    /\ completion[3].offset > completion[4].offset
    /\ completion[1].output.tag = "Ok" /\ Len(completion[1].output.records) = 2
    /\ completion[2].output.tag = "Ok" /\ Len(completion[2].output.records) = 1
    /\ completion[3].output.tag = "Err"
    /\ completion[4].output.tag = "Err"
    /\ Len(result.records) = 3
    /\ Len(result.errors) = 2

(* ------------------------------- C25 ---------------------------------- *)
ZeroSize == config.page_size = 0 \/ config.batch_size = 0

Panicked == pc = "panic"

\* C25: with page_size = 0 or batch_size = 0 a call with total_count >= 1
\* panics before any page fetch is issued and returns no outcome; a call
\* with total_count = 0 returns the empty outcome; no other call panics.
C25_ZeroSizePanics ==
    /\ (ZeroSize /\ total_count >= 1) =>
          /\ pc \in {"start", "panic"}
          /\ calls = <<>>
    /\ (ZeroSize /\ total_count = 0) =>
          /\ pc \in {"start", "done"}
          /\ result = InfraResultNew
    /\ Panicked => (ZeroSize /\ total_count >= 1)

\* chunks(0) has panicked: the page size is valid and offsets were computed.
C25_Witness ==
    /\ Panicked
    /\ config.batch_size = 0
    /\ config.page_size >= 1
    /\ total_count >= 1
    /\ offsets # <<>>
    /\ calls = <<>>

\* step_by(0) has panicked.
C25_WitnessPageSize ==
    /\ Panicked
    /\ config.page_size = 0
    /\ config.batch_size >= 1
    /\ calls = <<>>

\* The same configurations return the empty outcome for total_count = 0.
C25_WitnessEmpty ==
    /\ Returned
    /\ total_count = 0
    /\ config.page_size = 0
    /\ config.batch_size = 0
    /\ result = InfraResultNew

(* ------------------------------- C26 ---------------------------------- *)
CadentReturned == cad_pc = "returned"

CountFailed == server.count = None

\* C26: a failing count query makes fetch_all_by_bbox return an outcome
\* with zero records and exactly one error, without any page request and
\* without panicking; a successful one passes the reported total_count to
\* fetch_all_pages.
C26_CountFailureIsAnOutcome ==
    /\ CountFailed =>
          /\ calls = <<>>
          /\ pc = "idle"
          /\ cad_pc \in {"new", "no_client", "ready", "returned"}
    /\ (CountFailed /\ CadentReturned) =>
          /\ outcome # None
          /\ outcome[1].records = <<>>
          /\ Len(outcome[1].errors) = 1
    /\ (~CountFailed /\ cad_pc \in {"pages", "returned"}) =>
          /\ total_count = server.count[1]
          /\ config = OpenDataSoft
          /\ pc # "panic"

\* fetch_all_by_bbox has returned after its count query failed.
C26_Witness ==
    /\ CadentReturned
    /\ CountFailed
    /\ count_queries = 1
    /\ outcome = Some(CountFailure(CountQueryFailed))

\* fetch_all_by_bbox has returned the pages of a reported total of 250.
C26_WitnessPages ==
    /\ CadentReturned
    /\ server.count = Some(250)
    /\ server.pages = "mixed"
    /\ total_count = 250
    /\ Len(outcome[1].records) = 2
    /\ Len(outcome[1].errors) = 1

(* ------------------------------- C27 ---------------------------------- *)
\* C27: whatever total_count the count query reports, fetch_all_by_bbox
\* issues at most 100 page requests, each with offset <= 9900 and
\* offset + limit <= 10000, all in a single wave, and never pauses.
C27_OpenDataSoftEnvelope ==
    /\ Len(calls) <= 100
    /\ \A k \in 1..Len(calls) :
          /\ calls[k][1] <= 9900
          /\ calls[k][1] + calls[k][2] <= 10000
    /\ Len(waves) <= 1
    /\ pauses = 0
    /\ pc # "sleep"

\* A reported total beyond the ceiling: one full wave of 100 requests, the
\* last at offset 9900, has been answered and the call has returned.
C27_Witness ==
    /\ CadentReturned
    /\ server.count = Some(25000)
    /\ Len(calls) = 100
    /\ calls[100] = <<9900, 100>>
    /\ Len(waves) = 1
    /\ Len(completion) = 100

(* ------------------------------- C28 ---------------------------------- *)
\* The two maps of aggregate_hex_counts after the first k pipes.
MapsAfter(cells, k) ==
    CountPipes([counts |-> EmptyMap, cells_map |-> EmptyMap], SubSeq(cells, 1, k))

\* The first record, in record order, whose surviving cells contain id.
FirstRecordWith(id) ==
    CHOOSE i \in RecordsTouching(id, filter) :
        \A j \in RecordsTouching(id, filter) : i <= j

\* C28: after every pipe of the aggregation the count map and the
\* representative map have the same keys; every row of the summary finds
\* its representative, and that is the cell of the first record, in record
\* order, whose surviving cells contain the identifier.
C28_RepresentativeIsFirstSeen ==
    /\ (agg_pc = "build" /\ mode = "hex_summary") =>
          \A k \in 0..Len(cells_per_pipe) :
              DOMAIN MapsAfter(cells_per_pipe, k).counts
                  = DOMAIN MapsAfter(cells_per_pipe, k).cells_map
    /\ SummaryReturned =>
          /\ DOMAIN aggregated.cells_map
                = {batch.table.rows[k].hex_id : k \in 1..Len(batch.table.rows)}
          /\ \A k \in 1..Len(batch.table.rows) :
                LET id == batch.table.rows[k].hex_id
                IN  /\ id \in DOMAIN aggregated.cells_map
                    /\ aggregated.cells_map[id].id = id
                    /\ aggregated.cells_map[id].of = FirstRecordWith(id)

\* Cell A is touched by the second and the third record, cell B by the first
\* and the second: the representatives come from records 2 and 1.
C28_Witness ==
    /\ SummaryReturned
    /\ filter = Unit
    /\ Len(records) = 3
    /\ Touched(1) = <<"B">>
    /\ Touched(2) = <<"A", "B", "A">>
    /\ Touched(3) = <<"A", "C">>
    /\ aggregated.cells_map["A"].of = 2
    /\ aggregated.cells_map["B"].of = 1
    /\ aggregated.cells_map["C"].of = 3

(* =================== GeoJSON conversions: the model =================== *)
\* Largest number of rings of a GeoJSON polygon, of lines of a
\* MultiLineString, and of polygons of a MultiPolygon.
MaxRings == 2

\* Largest number of interior rings of a polygon converted to GeoJSON.
MaxHoles == 1

\* f64 NaN, the one coordinate value that is not equal to itself.
NaN == -1

\* f64 ==
FloatEq(a, b) == a # NaN /\ b # NaN /\ a = b

\* Coord { x, y } and its derived PartialEq.
Coord(x, y) == [x |-> x, y |-> y]

CoordEq(c, d) == FloatEq(c.x, d.x) /\ FloatEq(c.y, d.y)

\* LineString::is_closed: self.0.first() == self.0.last()
IsClosed(ls) == ls = <<>> \/ CoordEq(ls[1], ls[Len(ls)])

\* LineString::close: push the first coordinate unless is_closed.
Close(ls) == IF IsClosed(ls) THEN ls ELSE Append(ls, ls[1])

\* Polygon::new(exterior, interiors) closes every ring.
PolygonNew(exterior, interiors) ==
    [exterior |-> Close(exterior),
     interiors |-> [k \in 1..Len(interiors) |-> Close(interiors[k])]]

\* GeoJsonGeometry::new(GeoJsonValue::<kind>(value))
GeoJson(kind, value) == [kind |-> kind, value |-> value]

NoGeometry == GeoJson("none", <<>>)

\* Result<T, InfraHexError> of a conversion, its absence, and a panic.
GeoNone == [tag |-> "none", value |-> <<>>, err |-> "none"]

GeoOk(v) == [tag |-> "Ok", value |-> v, err |-> "none"]

\* Err(InfraHexError::Geometry(msg))
GeoErr(msg) == [tag |-> "Err", value |-> <<>>, err |-> msg]

GeoPanic == [tag |-> "Panic", value |-> <<>>, err |-> "index out of bounds"]

\* coords_to_linestring: positions of fewer than two numbers are skipped.
CoordsToLineString(coords) ==
    LET kept == SelectSeq(coords, LAMBDA c : Len(c) >= 2)
    IN  [k \in 1..Len(kept) |-> Coord(kept[k][1], kept[k][2])]

\* rings_to_polygon
RingsToPolygon(rings) ==
    IF rings = <<>> THEN GeoErr("No rings in polygon")
    ELSE LET exterior == CoordsToLineString(rings[1])
         IN  IF exterior = <<>>
             THEN GeoErr("No valid coordinates in exterior ring")
             ELSE LET lines == [k \in 1..(Len(rings) - 1) |->
                                  CoordsToLineString(rings[k + 1])]
                      holes == SelectSeq(lines, LAMBDA ls : ls # <<>>)
                  IN  GeoOk(PolygonNew(exterior, holes))

\* lines.iter().flat_map(|line| line.iter().map(|c| Coord { x: c[0], y: c[1] }))
RECURSIVE FlatMapCoords(_)
FlatMapCoords(lines) ==
    IF lines = <<>> THEN <<>>
    ELSE [k \in 1..Len(lines[1]) |-> Coord(lines[1][k][1], lines[1][k][2])]
             \o FlatMapCoords(Tail(lines))

\* Variant that takes a Point for a line of one coordinate.
LineStringFromGeoJsonWithPoint(geometry) ==
    IF geometry.kind = "Point" THEN GeoOk(CoordsToLineString(<<geometry.value>>))
    ELSE IF geometry.kind = "LineString" THEN GeoOk(CoordsToLineString(geometry.value))
    ELSE GeoErr("Expected LineString or MultiLineString")

\* <LineString<f64> as FromGeoJson>::from_geojson; c[0], c[1] panic on a
\* position of fewer than two numbers.
LineStringFromGeoJson(geometry) ==
    IF geometry.kind = "LineString"
    THEN GeoOk(CoordsToLineString(geometry.value))
    ELSE IF geometry.kind = "MultiLineString"
    THEN IF \E i \in 1..Len(geometry.value) :
               \E k \in 1..Len(geometry.value[i]) : Len(geometry.value[i][k]) < 2
         THEN GeoPanic
         ELSE GeoOk(FlatMapCoords(geometry.value))
    ELSE GeoErr("Expected LineString or MultiLineString")

\* <Polygon<f64> as FromGeoJson>::from_geojson
PolygonFromGeoJson(geometry) ==
    IF geometry.kind = "Polygon" THEN RingsToPolygon(geometry.value)
    ELSE GeoErr("Expected Polygon")

\* for rings in polygons { result.push(rings_to_polygon(rings)?); }
RECURSIVE PushPolygons(_, _)
PushPolygons(pushed, polygons) ==
    IF polygons = <<>> THEN GeoOk(pushed)
    ELSE LET polygon == RingsToPolygon(polygons[1])
         IN  IF polygon.tag = "Err" THEN polygon
             ELSE PushPolygons(Append(pushed, polygon.value), Tail(polygons))

\* <MultiPolygon<f64> as FromGeoJson>::from_geojson
MultiPolygonFromGeoJson(geometry) ==
    IF geometry.kind = "Polygon"
    THEN LET polygon == RingsToPolygon(geometry.value)
         IN  IF polygon.tag = "Err" THEN polygon ELSE GeoOk(<<polygon.value>>)
    ELSE IF geometry.kind = "MultiPolygon"
    THEN PushPolygons(<<>>, geometry.value)
    ELSE GeoErr("Expected Polygon or MultiPolygon")

\* Variant that converts the exterior ring only.
PolygonToRingsExteriorOnly(polygon) ==
    <<[k \in 1..Len(polygon.exterior) |->
          <<polygon.exterior[k].x, polygon.exterior[k].y>>]>>

\* polygon_to_rings: the exterior ring, then every interior ring.
PolygonToRings(polygon) ==
    <<[k \in 1..Len(polygon.exterior) |->
          <<polygon.exterior[k].x, polygon.exterior[k].y>>]>>
    \o [i \in 1..Len(polygon.interiors) |->
          [k \in 1..Len(polygon.interiors[i]) |->
              <<polygon.interiors[i][k].x, polygon.interiors[i][k].y>>]]

\* <Polygon<f64> as ToGeoJson>::to_geojson
PolygonToGeoJson(polygon) == GeoJson("Polygon", PolygonToRings(polygon))

\* The sequences over S of at most n elements.
SeqsUpTo(S, n) == UNION {[1..k -> S] : k \in 0..n}

\* GeoJSON rings and lines: none, only a short position, an open line, a
\* closed triangle, a closed ring with a short position in it, a line that
\* starts at a NaN.
SampleRings ==
    {<<>>,
     <<<<2>>>>,
     <<<<0, 0>>, <<1, 0>>>>,
     <<<<0, 0>>, <<1, 0>>, <<1, 1>>, <<0, 0>>>>,
     <<<<0, 0>>, <<2>>, <<1, 1>>, <<0, 0>>>>,
     <<<<NaN, 0>>, <<1, 0>>>>}

\* Ring lists of GeoJSON polygons inside a MultiPolygon: a triangle, a
\* triangle with a hole, no ring at all.
SamplePolygonRings ==
    {<<<<<<0, 0>>, <<1, 0>>, <<1, 1>>, <<0, 0>>>>>>,
     <<<<<<0, 0>>, <<1, 0>>, <<1, 1>>, <<0, 0>>>>, <<<<0, 0>>, <<1, 0>>>>>>,
     <<>>}

\* The GeoJSON geometries handed to from_geojson: every kind of
\* GeoJsonValue.
SampleGeometries ==
    {GeoJson("Point", <<0, 0>>),
     GeoJson("MultiPoint", <<<<0, 0>>, <<1, 0>>>>),
     GeoJson("GeometryCollection", <<>>)}
    \cup {GeoJson("LineString", ring) : ring \in SampleRings}
    \cup {GeoJson("MultiLineString", lines) : lines \in SeqsUpTo(SampleRings, MaxRings)}
    \cup {GeoJson("Polygon", rings) : rings \in SeqsUpTo(SampleRings, MaxRings)}
    \cup {GeoJson("MultiPolygon", polygons) :
              polygons \in SeqsUpTo(SamplePolygonRings, MaxRings)}

\* Coordinate sequences polygons are built from.
SampleLines ==
    {<<>>,
     <<Coord(0, 0)>>,
     <<Coord(0, 0), Coord(1, 0)>>,
     <<Coord(0, 0), Coord(1, 0), Coord(1, 1), Coord(0, 0)>>,
     <<Coord(0, 0), Coord(NaN, 0), Coord(1, 1), Coord(0, 0)>>,
     <<Coord(NaN, 0), Coord(1, 0)>>}

\* The polygons handed to to_geojson: whatever Polygon::new builds.
SamplePolygons ==
    {PolygonNew(exterior, interiors) :
        exterior \in SampleLines, interiors \in SeqsUpTo(SampleLines, MaxHoles)}

InitGeo ==
    /\ FetchIdle
    /\ AggIdle
    /\ CadentIdle
    /\ \/ /\ geo_input \in {[polygon |-> None, geometry |-> g] :
                                g \in SampleGeometries}
          /\ geo_pc = "from_geojson"
       \/ /\ geo_input \in {[polygon |-> Some(polygon), geometry |-> NoGeometry] :
                                polygon \in SamplePolygons}
          /\ geo_pc = "to_geojson"
    /\ geo_output = [target |-> "none", result |-> GeoNone]

\* What a call that returned (or panicked) leaves behind.
AfterConversion(target, returned) ==
    /\ geo_output' = [target |-> target, result |-> returned]
    /\ geo_pc' = IF returned.tag = "Panic" THEN "panic" ELSE "done"
    /\ UNCHANGED geo_input
    /\ UNCHANGED <<fetchVars, aggVars, cadentVars>>

\* polygon.to_geojson()
ToGeoJson ==
    /\ geo_pc = "to_geojson"
    /\ geo_input' = [geo_input EXCEPT
                        !.geometry = PolygonToGeoJson(geo_input.polygon[1])]
    /\ geo_pc' = "from_geojson"
    /\ UNCHANGED geo_output
    /\ UNCHANGED <<fetchVars, aggVars, cadentVars>>

\* LineString::from_geojson(&geometry)
ParseLineString ==
    /\ geo_pc = "from_geojson"
    /\ AfterConversion("LineString", LineStringFromGeoJson(geo_input.geometry))

\* Polygon::from_geojson(&geometry)
ParsePolygon ==
    /\ geo_pc = "from_geojson"
    /\ AfterConversion("Polygon", PolygonFromGeoJson(geo_input.geometry))

\* MultiPolygon::from_geojson(&geometry)
ParseMultiPolygon ==
    /\ geo_pc = "from_geojson"
    /\ AfterConversion("MultiPolygon", MultiPolygonFromGeoJson(geo_input.geometry))

NextGeo ==
    \/ ToGeoJson
    \/ ParseLineString
    \/ ParsePolygon
    \/ ParseMultiPolygon

SpecGeo == InitGeo /\ [][NextGeo]_vars

(* ------------------------------- C29 ---------------------------------- *)
\* The GeoJSON kinds each from_geojson is meant for.
AcceptedKinds(target) ==
    IF target = "LineString" THEN {"LineString", "MultiLineString"}
    ELSE IF target = "Polygon" THEN {"Polygon"}
    ELSE {"Polygon", "MultiPolygon"}

Converted == geo_output.target # "none"

\* C29: each from_geojson answers a geometry of a kind it is not meant for
\* (Point, MultiPoint, GeometryCollection, and the kinds of the other
\* conversions) with a Geometry error value, never with a geometry and
\* never with a panic; a MultiPolygon parsed from a Polygon has one member,
\* one parsed from a MultiPolygon has as many members as the input.
C29_UnsupportedKindsRejected ==
    Converted =>
        LET target == geo_output.target
            returned == geo_output.result
            geometry == geo_input.geometry
        IN  /\ geometry.kind \notin AcceptedKinds(target) =>
                  /\ returned.tag = "Err"
                  /\ returned.value = <<>>
                  /\ geo_pc = "done"
            /\ returned.tag = "Ok" => geometry.kind \in AcceptedKinds(target)
            /\ (target = "MultiPolygon" /\ returned.tag = "Ok") =>
                  Len(returned.value) = IF geometry.kind = "Polygon" THEN 1
                                        ELSE Len(geometry.value)

\* Polygon::from_geojson has rejected a LineString.
C29_Witness ==
    /\ Converted
    /\ geo_output.target = "Polygon"
    /\ geo_input.geometry.kind = "LineString"
    /\ geo_input.geometry.value # <<>>
    /\ geo_output.result = GeoErr("Expected Polygon")

\* All three conversions reject a Point.
C29_WitnessPoint ==
    /\ Converted
    /\ geo_input.geometry.kind = "Point"
    /\ geo_output.target = "MultiPolygon"
    /\ geo_output.result.tag = "Err"

\* A MultiPolygon of two members keeps its member count.
C29_WitnessMembers ==
    /\ Converted
    /\ geo_output.target = "MultiPolygon"
    /\ geo_input.geometry.kind = "MultiPolygon"
    /\ Len(geo_input.geometry.value) = 2
    /\ geo_output.result.tag = "Ok"
    /\ Len(geo_output.result.value) = 2

(* ------------------------------- C30 ---------------------------------- *)
\* The polygon has a non-empty closed exterior ring and its interior rings
\* are non-empty and closed.
ClosedRings(polygon) ==
    /\ polygon.exterior # <<>>
    /\ IsClosed(polygon.exterior)
    /\ \A i \in 1..Len(polygon.interiors) :
          /\ polygon.interiors[i] # <<>>
          /\ IsClosed(polygon.interiors[i])

RoundTripped ==
    /\ geo_input.polygon # None
    /\ geo_output.target = "Polygon"

\* C30: Polygon::from_geojson(polygon.to_geojson()) succeeds for a polygon
\* with a non-empty closed exterior ring and non-empty closed interior
\* rings, with the same number of exterior coordinates, the same number of
\* interior rings and the same number of coordinates in each, in order.
C30_PolygonRoundTrip ==
    (RoundTripped /\ ClosedRings(geo_input.polygon[1])) =>
        LET polygon == geo_input.polygon[1]
            returned == geo_output.result
        IN  /\ returned.tag = "Ok"
            /\ Len(returned.value.exterior) = Len(polygon.exterior)
            /\ Len(returned.value.interiors) = Len(polygon.interiors)
            /\ \A i \in 1..Len(polygon.interiors) :
                  Len(returned.value.interiors[i]) = Len(polygon.interiors[i])

\* A triangle with a hole of three coordinates has made the round trip.
C30_Witness ==
    /\ RoundTripped
    /\ ClosedRings(geo_input.polygon[1])
    /\ Len(geo_input.polygon[1].exterior) = 4
    /\ Len(geo_input.polygon[1].interiors) = 1
    /\ Len(geo_input.polygon[1].interiors[1]) = 3
    /\ geo_output.result.tag = "Ok"
    /\ Len(geo_output.result.value.interiors[1]) = 3

\* A ring that starts at a NaN coordinate is not closed, and the round trip
\* closes it once more.
C30_OpenRingGrows ==
    /\ RoundTripped
    /\ ~IsClosed(geo_input.polygon[1].exterior)
    /\ geo_output.result.tag = "Ok"
    /\ Len(geo_output.result.value.exterior) = Len(geo_input.polygon[1].exterior) + 1

====
